---- MODULE Spec2Model ----
(***************************************************************************)
(* Model of cbpro_recurring_buy.py: one invocation of main(), which        *)
(* authenticates and then runs exactly one of deposit_funds or             *)
(* buy_cryptocurrency against the exchange client (Spec, FairSpec), and    *)
(* two such invocations running concurrently as processes (ConcSpec).      *)
(*                                                                         *)
(* The exchange is the environment: every response of a client call is     *)
(* chosen from a small set of JSON shapes (a list of payment-method        *)
(* records, or a dict).  Python's operators are modelled by what they do   *)
(* on those shapes: `x in d` on a dict is key membership, `x in l` on a    *)
(* list is element membership, iterating a dict yields its keys, indexing  *)
(* a str with a str raises TypeError, reading an unassigned local raises   *)
(* UnboundLocalError, d[k] on a missing key raises KeyError.               *)
(***************************************************************************)
EXTENDS Integers, Sequences, FiniteSets, TLC

\* ---------------------------------------------------------------- bounds
MaxMethods == 2

\* ------------------------------------------------------- input universes
Amounts == {5, 100}
FiatCurrencies == {"USD", "EUR"}
Products == {"BTC-USD"}
FundingChoices == {"ach_bank_account"}
None == "<None>"
Unbound == "<unbound>"
MethodTypes == {"ach_bank_account", "fiat_account"}
\* identifiers assigned by the exchange are non-empty strings
MethodIds == {"m1", "m2"}
MethodNames == {"n1", "n2"}
OrderIds == {"o1", "o2"}
Messages == {"Invalid API Key", "Insufficient funds", "Internal server error"}
InvalidKeyMarker == "Invalid API Key"
InsufficientMarker == "Insufficient funds"
ShortWait == 5
LongWait == 30

\* A payment-method record of the exchange.  has_limit says whether
\* method['limits']['deposit'][0]['remaining']['amount'] exists.
MethodRecords ==
    [type : MethodTypes, id : MethodIds, name : MethodNames, has_limit : BOOLEAN]

RECURSIVE SeqsUpTo(_, _)
SeqsUpTo(S, n) ==
    IF n = 0 THEN {<< >>}
    ELSE LET shorter == SeqsUpTo(S, n - 1)
         IN  shorter \cup {Append(s, x) : s \in {t \in shorter : Len(t) = n - 1}, x \in S}

\* JSON dicts are functions from their keys to string values.
\* A dict is carried as [keys |-> set of keys, val |-> function on keys].
Dict(keys, val) == [keys |-> keys, val |-> val]
EmptyVal == [k \in {"<none>"} |-> ""]
ErrorDicts ==
    {Dict({"message"}, [k \in {"message"} |-> m]) : m \in Messages}
MarkerKeyDicts ==
    {Dict({mk}, [k \in {mk} |-> ""]) : mk \in {InvalidKeyMarker, InsufficientMarker}}

\* Responses of client.get_payment_methods(): the JSON list, or an error dict.
PaymentMethodsResponses ==
    {[kind |-> "list", items |-> l, d |-> Dict({}, EmptyVal)] :
        l \in SeqsUpTo(MethodRecords, MaxMethods)}
    \cup {[kind |-> "dict", items |-> << >>, d |-> e] : e \in ErrorDicts \cup MarkerKeyDicts}

\* Responses of client.deposit(): a confirmation, or an error dict.
DepositResponses ==
    {Dict({"id", "payout_at"}, [k \in {"id", "payout_at"} |-> IF k = "id" THEN "d1" ELSE "t1"])}
    \cup ErrorDicts

\* Responses of client.place_market_order(): {id: ...}, an error dict, or a
\* dict keyed by a marker.
OrderDicts ==
    {Dict({"id"}, [k \in {"id"} |-> o]) : o \in OrderIds}
PlaceOrderResponses ==
    OrderDicts \cup ErrorDicts \cup MarkerKeyDicts

\* Order snapshots returned by client.get_order().
Snapshots ==
    [settled : BOOLEAN, filled_size : {"0.002", "0"}, fill_fees : {"0.50", "0"}]

\* ------------------------------------------------------ Python operators
\* `x in response` (lines 78, 116, 118).
PyIn(x, keys) == x \in keys

\* dict.get(key, default) (line 121)
DictGet(d, key, default) == IF key \in d.keys THEN d.val[key] ELSE default

Truthy_AnyValue(v) == TRUE

\* truth value of a str-or-None (lines 93, 123)
Truthy(v) == v # None /\ v # ""

TypeMatches_AnyType(method, account) == TRUE

\* line 83: method['type'] == account
TypeMatches(method, account) == method.type = account

ScanMethodId_KeepFirst(current, method) ==
    IF current = Unbound THEN method.id ELSE current

\* line 84: method_id = method['id'] overwrites whatever an earlier
\* iteration assigned
ScanMethodId(current, method) == method.id

ScanMethodName_KeepFirst(current, method) ==
    IF current = Unbound THEN method.name ELSE current

\* line 85: method_name = method['name']
ScanMethodName(current, method) == method.name

LimitLookupSucceeds_Always(method) == TRUE

\* line 86: method['limits']['deposit'][0]['remaining']['amount'] is present
LimitLookupSucceeds(method) == method.has_limit

NeedsRefetch_Never(snapshot) == FALSE
NeedsRefetch_Always(snapshot) == TRUE

\* line 132: `not executed_trade_response['settled']`
NeedsRefetch(snapshot) == ~snapshot.settled

\* str(amount) (line 114)
Digit(n) == CASE n = 0 -> "0" [] n = 1 -> "1" [] n = 2 -> "2" [] n = 3 -> "3"
              [] n = 4 -> "4" [] n = 5 -> "5" [] n = 6 -> "6" [] n = 7 -> "7"
              [] n = 8 -> "8" [] n = 9 -> "9"
RECURSIVE str(_)
str(n) == IF n < 0 THEN "-" \o str(-n)
          ELSE IF n < 10 THEN Digit(n)
          ELSE str(n \div 10) \o Digit(n % 10)

\* -------------------------------------------------------------- the state
VARIABLES
    pc,               \* position of the invocation (source line reached)
    args,             \* parsed command line: action, amount, currencies, ...
    payment_methods,  \* deposit_funds: response of get_payment_methods
    scan_i,           \* deposit_funds: index of the for loop
    method_id,        \* deposit_funds local (Unbound until assigned)
    method_name,      \* deposit_funds local (Unbound until assigned)
    deposit_response, \* deposit_funds local
    buy_response,     \* buy_cryptocurrency local
    trade_id,         \* buy_cryptocurrency local
    executed_trade_response, \* buy_cryptocurrency local
    trace,            \* exchange calls and sleeps, in program order
    snapshots,        \* the snapshots get_order returned, in order
    log,              \* logging events, in program order
    exc,              \* the exception that ended the run, or NoExc
    result,           \* the value returned by the workflow, or NoResult
    cur,              \* which invocation (process) the variables above belong to
    other             \* the state of a second, concurrently running invocation

vars == <<pc, args, payment_methods, scan_i, method_id, method_name,
          deposit_response, buy_response, trade_id, executed_trade_response,
          trace, snapshots, log, exc, result, cur, other>>

NoDict == Dict({}, EmptyVal)
NoSnapshot == [settled |-> FALSE, filled_size |-> "<unbound>", fill_fees |-> "<unbound>"]
NoExc == [type |-> "<none>", msg |-> "<none>"]
NoResult == [kind |-> "none", dict |-> NoDict, snap |-> NoSnapshot]

\* Exceptions the source raises explicitly (all are RuntimeError).
InvalidCredentialFormat == [type |-> "RuntimeError", msg |-> "API secret key is not in proper Base64 format!"]
AuthenticationRejectedDeposit == [type |-> "RuntimeError", msg |-> "API key is invalid!"]
FundingSourceNotFound == [type |-> "RuntimeError", msg |-> "Could not find a payment method matching the selected method"]
AuthenticationRejectedBuy == [type |-> "RuntimeError", msg |-> "API key is invalid, please check your credentials!"]
InsufficientFunds_SameTextAsPlacementFailure ==
    [type |-> "RuntimeError", msg |-> "Unable to get trade ID in returned data, trade failed."]
InsufficientFunds == [type |-> "RuntimeError", msg |-> "Insufficient funds to make the purchasein your fiat wallet!"]
OrderPlacementFailed == [type |-> "RuntimeError", msg |-> "Unable to get trade ID in returned data, trade failed."]
\* Exceptions the interpreter raises.
UnboundLocalError(name) == [type |-> "UnboundLocalError", msg |-> name]
TypeError(what) == [type |-> "TypeError", msg |-> what]
KeyError(key) == [type |-> "KeyError", msg |-> key]

Call(op, a) == [op |-> op, args |-> a]
Event(level, what, a) == [level |-> level, what |-> what, args |-> a]

ArgSets ==
    [action : {"deposit", "buy"}, amount : Amounts, fiat_currency : FiatCurrencies,
     cryptocurrency : Products, funding_method : FundingChoices \cup {None}]

\* The locals of an invocation when main() starts.
RunInit ==
    /\ pc = "main"
    /\ args \in ArgSets
    /\ payment_methods = [kind |-> "none", items |-> << >>, d |-> NoDict]
    /\ scan_i = 0
    /\ method_id = Unbound
    /\ method_name = Unbound
    /\ deposit_response = NoDict
    /\ buy_response = NoDict
    /\ trade_id = Unbound
    /\ executed_trade_response = NoSnapshot
    /\ trace = << >>
    /\ snapshots = << >>
    /\ log = << >>
    /\ exc = NoExc
    /\ result = NoResult

\* The state of an invocation as a record, as kept for the invocation that
\* is not the one currently executing.
StartOf(a) ==
    [pc |-> "main", args |-> a,
     payment_methods |-> [kind |-> "none", items |-> << >>, d |-> NoDict],
     scan_i |-> 0, method_id |-> Unbound, method_name |-> Unbound,
     deposit_response |-> NoDict, buy_response |-> NoDict, trade_id |-> Unbound,
     executed_trade_response |-> NoSnapshot, trace |-> << >>, snapshots |-> << >>,
     log |-> << >>, exc |-> NoExc, result |-> NoResult]
NoRun == [StartOf(CHOOSE a \in ArgSets : TRUE) EXCEPT !.pc = "absent"]

\* main() of a single invocation: there is no second one.
Init ==
    /\ RunInit
    /\ cur = 1
    /\ other = NoRun

Raise(e) == pc' = "raised" /\ exc' = e

\* ------------------------------------------------------------------ main
\* lines 154-155: --deposit without --funding_method is a usage error.
MainCheckArgs ==
    /\ pc = "main"
    /\ pc' = IF args.action = "deposit" /\ args.funding_method = None
             THEN "usage_error" ELSE "auth"
    /\ UNCHANGED <<cur, other, args, payment_methods, scan_i, method_id, method_name,
                   deposit_response, buy_response, trade_id,
                   executed_trade_response, trace, log, exc, result, snapshots>>

\* lines 60-68 and 157: the client constructor either raises binascii.Error,
\* which cbpro_auth turns into a RuntimeError, or returns the handle.  No
\* exchange call is made here.  Lines 159-162 then dispatch on the action.
CbproAuth ==
    /\ pc = "auth"
    /\ \E ctor_raises \in BOOLEAN :
          IF ctor_raises
          THEN Raise(InvalidCredentialFormat)
          ELSE /\ pc' = IF args.action = "deposit" THEN "d76" ELSE "b112"
               /\ exc' = exc
    /\ UNCHANGED <<cur, other, args, payment_methods, scan_i, method_id, method_name,
                   deposit_response, buy_response, trade_id,
                   executed_trade_response, trace, log, result, snapshots>>

\* --------------------------------------------------------- deposit_funds
\* line 76: payment_methods = client.get_payment_methods()
GetPaymentMethods ==
    /\ pc = "d76"
    /\ \E r \in PaymentMethodsResponses : payment_methods' = r
    /\ trace' = Append(trace, Call("get_payment_methods", << >>))
    /\ pc' = "d78"
    /\ UNCHANGED <<cur, other, args, scan_i, method_id, method_name, deposit_response,
                   buy_response, trade_id, executed_trade_response, log, exc, result, snapshots>>

\* `'Invalid API Key' in payment_methods`: element membership on a list (no
\* element of the list is a str), key membership on a dict.
InvalidKeyInPaymentMethods(pm) ==
    IF pm.kind = "list" THEN FALSE ELSE PyIn(InvalidKeyMarker, pm.d.keys)

\* lines 78-79
CheckPaymentMethodsKey ==
    /\ pc = "d78"
    /\ IF InvalidKeyInPaymentMethods(payment_methods)
       THEN Raise(AuthenticationRejectedDeposit) /\ scan_i' = scan_i
       ELSE pc' = "d82" /\ exc' = exc /\ scan_i' = 1
    /\ UNCHANGED <<cur, other, args, payment_methods, method_id, method_name,
                   deposit_response, buy_response, trade_id,
                   executed_trade_response, trace, log, result, snapshots>>

\* Number of values the for loop of line 82 iterates over.
IterLen(pm) == IF pm.kind = "list" THEN Len(pm.items) ELSE Cardinality(pm.d.keys)

\* lines 82-90: one iteration of the loop, or leaving it.
ScanStep ==
    /\ pc = "d82"
    /\ IF scan_i > IterLen(payment_methods)
       THEN /\ pc' = "d93"
            /\ UNCHANGED <<scan_i, method_id, method_name, log, exc>>
       ELSE IF payment_methods.kind = "dict"
       THEN \* method is a key (a str): method['type'] raises TypeError
            /\ Raise(TypeError("string indices must be integers"))
            /\ UNCHANGED <<scan_i, method_id, method_name, log>>
       ELSE LET method == payment_methods.items[scan_i] IN
            IF ~TypeMatches(method, args.funding_method)
            THEN /\ scan_i' = scan_i + 1
                 /\ pc' = pc
                 /\ UNCHANGED <<method_id, method_name, log, exc>>
            ELSE \* lines 84-85 assign before line 86 can raise
                 /\ method_id' = ScanMethodId(method_id, method)
                 /\ method_name' = ScanMethodName(method_name, method)
                 /\ IF ~LimitLookupSucceeds(method)
                    THEN /\ Raise(KeyError("limits.deposit.remaining.amount"))
                         /\ UNCHANGED <<scan_i, log>>
                    ELSE /\ log' = log \o <<Event("debug", "name", <<method.name>>),
                                            Event("debug", "id", <<method.id>>),
                                            Event("debug", "limit", <<method.id>>)>>
                         /\ scan_i' = scan_i + 1
                         /\ pc' = pc
                         /\ exc' = exc
    /\ UNCHANGED <<cur, other, args, payment_methods, deposit_response, buy_response,
                   trade_id, executed_trade_response, trace, result, snapshots>>

CheckMethodId_FallBackToBuy ==
    /\ pc = "d93"
    /\ IF method_id = Unbound
       THEN pc' = "b112" /\ exc' = exc
       ELSE IF ~Truthy(method_id)
       THEN Raise(FundingSourceNotFound)
       ELSE pc' = "d97" /\ exc' = exc
    /\ UNCHANGED <<cur, other, args, payment_methods, scan_i, method_id, method_name,
                   deposit_response, buy_response, trade_id,
                   executed_trade_response, trace, log, result, snapshots>>

\* lines 93-94: reading method_id when no iteration assigned it raises
\* UnboundLocalError; a bound, falsy method_id raises the RuntimeError.
CheckMethodId ==
    /\ pc = "d93"
    /\ IF method_id = Unbound
       THEN Raise(UnboundLocalError("method_id"))
       ELSE IF ~Truthy(method_id)
       THEN Raise(FundingSourceNotFound)
       ELSE pc' = "d97" /\ exc' = exc
    /\ UNCHANGED <<cur, other, args, payment_methods, scan_i, method_id, method_name,
                   deposit_response, buy_response, trade_id,
                   executed_trade_response, trace, log, result, snapshots>>

Deposit_RefuseDuplicate ==
    /\ pc = "d97"
    /\ IF \E i \in 1..Len(other.trace) : other.trace[i].op = "deposit"
       THEN /\ Raise([type |-> "RuntimeError", msg |-> "a deposit is already in progress"])
            /\ UNCHANGED <<deposit_response, trace>>
       ELSE /\ \E r \in DepositResponses : deposit_response' = r
            /\ trace' = Append(trace, Call("deposit", <<args.amount, args.fiat_currency, method_id>>))
            /\ pc' = "d101"
            /\ exc' = exc
    /\ UNCHANGED <<cur, other, args, payment_methods, scan_i, method_id, method_name,
                   buy_response, trade_id, executed_trade_response, log, result, snapshots>>

\* lines 97-99: deposit_response = client.deposit(amount, currency, payment_method_id)
Deposit ==
    /\ pc = "d97"
    /\ \E r \in DepositResponses : deposit_response' = r
    /\ trace' = Append(trace, Call("deposit", <<args.amount, args.fiat_currency, method_id>>))
    /\ pc' = "d101"
    /\ UNCHANGED <<cur, other, args, payment_methods, scan_i, method_id, method_name,
                   buy_response, trade_id, executed_trade_response, log, exc, result, snapshots>>

\* lines 101-102: the "Deposited" event is logged, then
\* deposit_response['payout_at'] is read for the second event.
LogDeposit ==
    /\ pc = "d101"
    /\ LET deposited == Event("info", "deposited",
                              <<str(args.amount), args.fiat_currency, method_name>>) IN
       IF "payout_at" \in deposit_response.keys
       THEN /\ log' = log \o <<deposited,
                               Event("info", "available_at", <<deposit_response.val["payout_at"]>>)>>
            /\ pc' = "d104"
            /\ exc' = exc
       ELSE /\ log' = Append(log, deposited)
            /\ Raise(KeyError("payout_at"))
    /\ UNCHANGED <<cur, other, args, payment_methods, scan_i, method_id, method_name,
                   deposit_response, buy_response, trade_id,
                   executed_trade_response, trace, result, snapshots>>

\* line 104: return deposit_response
DepositReturn ==
    /\ pc = "d104"
    /\ result' = [kind |-> "dict", dict |-> deposit_response, snap |-> NoSnapshot]
    /\ pc' = "returned"
    /\ UNCHANGED <<cur, other, args, payment_methods, scan_i, method_id, method_name,
                   deposit_response, buy_response, trade_id,
                   executed_trade_response, trace, log, exc, snapshots>>

\* ---------------------------------------------------- buy_cryptocurrency
\* lines 112-114: buy_response = client.place_market_order(product_id, 'buy', str(amount))
PlaceMarketOrder ==
    /\ pc = "b112"
    /\ \E r \in PlaceOrderResponses : buy_response' = r
    /\ trace' = Append(trace, Call("place_market_order",
                                   <<args.cryptocurrency, "buy", str(args.amount)>>))
    /\ pc' = "b116"
    /\ UNCHANGED <<cur, other, args, payment_methods, scan_i, method_id, method_name,
                   deposit_response, trade_id, executed_trade_response,
                   log, exc, result, snapshots>>

\* lines 116-119: buy_response is a dict, so `in` tests its keys.
CheckBuyMarkers ==
    /\ pc = "b116"
    /\ IF PyIn(InvalidKeyMarker, buy_response.keys)
       THEN Raise(AuthenticationRejectedBuy)
       ELSE IF PyIn(InsufficientMarker, buy_response.keys)
       THEN Raise(InsufficientFunds)
       ELSE pc' = "b121" /\ exc' = exc
    /\ UNCHANGED <<cur, other, args, payment_methods, scan_i, method_id, method_name,
                   deposit_response, buy_response, trade_id,
                   executed_trade_response, trace, log, result, snapshots>>

GetTradeId_RetryPlacement ==
    /\ pc = "b121"
    /\ trade_id' = DictGet(buy_response, "id", None)
    /\ pc' = IF ~Truthy(trade_id') THEN "b112" ELSE "b127"
    /\ UNCHANGED <<cur, other, args, payment_methods, scan_i, method_id, method_name,
                   deposit_response, buy_response, executed_trade_response,
                   trace, log, exc, result, snapshots>>

\* lines 121-124: trade_id = buy_response.get('id', None)
GetTradeId ==
    /\ pc = "b121"
    /\ trade_id' = DictGet(buy_response, "id", None)
    /\ IF ~Truthy(trade_id')
       THEN Raise(OrderPlacementFailed)
       ELSE pc' = "b127" /\ exc' = exc
    /\ UNCHANGED <<cur, other, args, payment_methods, scan_i, method_id, method_name,
                   deposit_response, buy_response, executed_trade_response,
                   trace, log, result, snapshots>>

\* line 127: time.sleep(5)
SleepShort ==
    /\ pc = "b127"
    /\ trace' = Append(trace, Call("sleep", <<ShortWait>>))
    /\ pc' = "b130"
    /\ UNCHANGED <<cur, other, args, payment_methods, scan_i, method_id, method_name,
                   deposit_response, buy_response, trade_id,
                   executed_trade_response, log, exc, result, snapshots>>

\* line 130: executed_trade_response = client.get_order(trade_id)
GetOrderFirst ==
    /\ pc = "b130"
    /\ \E s \in Snapshots :
          /\ executed_trade_response' = s
          /\ snapshots' = Append(snapshots, s)
    /\ trace' = Append(trace, Call("get_order", <<trade_id>>))
    /\ pc' = "b132"
    /\ UNCHANGED <<cur, other, args, payment_methods, scan_i, method_id, method_name,
                   deposit_response, buy_response, trade_id, log, exc, result>>

CheckSettled_NoLongWait ==
    /\ pc = "b132"
    /\ pc' = IF NeedsRefetch(executed_trade_response) THEN "b135" ELSE "b138"
    /\ UNCHANGED <<cur, other, args, payment_methods, scan_i, method_id, method_name,
                   deposit_response, buy_response, trade_id,
                   executed_trade_response, trace, log, exc, result, snapshots>>

\* lines 132-134: if not settled, time.sleep(30)
CheckSettled ==
    /\ pc = "b132"
    /\ IF NeedsRefetch(executed_trade_response)
       THEN /\ trace' = Append(trace, Call("sleep", <<LongWait>>))
            /\ pc' = "b135"
       ELSE /\ trace' = trace
            /\ pc' = "b138"
    /\ UNCHANGED <<cur, other, args, payment_methods, scan_i, method_id, method_name,
                   deposit_response, buy_response, trade_id,
                   executed_trade_response, log, exc, result, snapshots>>

\* line 135: executed_trade_response = client.get_order(trade_id)
GetOrderSecond ==
    /\ pc = "b135"
    /\ \E s \in Snapshots :
          /\ executed_trade_response' = s
          /\ snapshots' = Append(snapshots, s)
    /\ trace' = Append(trace, Call("get_order", <<trade_id>>))
    /\ pc' = "b138"
    /\ UNCHANGED <<cur, other, args, payment_methods, scan_i, method_id, method_name,
                   deposit_response, buy_response, trade_id, log, exc, result>>

LogTrade_RaiseUnsettled ==
    /\ pc = "b138"
    /\ IF ~executed_trade_response.settled
       THEN /\ Raise([type |-> "RuntimeError", msg |-> "order not settled"])
            /\ log' = log
       ELSE /\ log' = log \o <<Event("info", "bought",
                                      <<str(args.amount), args.fiat_currency,
                                        executed_trade_response.filled_size>>),
                                Event("info", "fees",
                                      <<executed_trade_response.fill_fees, args.fiat_currency>>)>>
            /\ pc' = "b144"
            /\ exc' = exc
    /\ UNCHANGED <<cur, other, args, payment_methods, scan_i, method_id, method_name,
                   deposit_response, buy_response, trade_id,
                   executed_trade_response, trace, result, snapshots>>

\* lines 138-142: fees and filled size are read from the last snapshot and logged.
LogTrade ==
    /\ pc = "b138"
    /\ log' = log \o <<Event("info", "bought",
                             <<str(args.amount), args.fiat_currency,
                               executed_trade_response.filled_size>>),
                       Event("info", "fees",
                             <<executed_trade_response.fill_fees, args.fiat_currency>>)>>
    /\ pc' = "b144"
    /\ UNCHANGED <<cur, other, args, payment_methods, scan_i, method_id, method_name,
                   deposit_response, buy_response, trade_id,
                   executed_trade_response, trace, exc, result, snapshots>>

\* line 144: return executed_trade_response
BuyReturn ==
    /\ pc = "b144"
    /\ result' = [kind |-> "snapshot", dict |-> NoDict, snap |-> executed_trade_response]
    /\ pc' = "returned"
    /\ UNCHANGED <<cur, other, args, payment_methods, scan_i, method_id, method_name,
                   deposit_response, buy_response, trade_id,
                   executed_trade_response, trace, log, exc, snapshots>>

Next ==
    \/ MainCheckArgs
    \/ CbproAuth
    \/ GetPaymentMethods
    \/ CheckPaymentMethodsKey
    \/ ScanStep
    \/ CheckMethodId
    \/ Deposit
    \/ LogDeposit
    \/ DepositReturn
    \/ PlaceMarketOrder
    \/ CheckBuyMarkers
    \/ GetTradeId
    \/ SleepShort
    \/ GetOrderFirst
    \/ CheckSettled
    \/ GetOrderSecond
    \/ LogTrade
    \/ BuyReturn

Spec == Init /\ [][Next]_vars

\* ------------------------------------------- two concurrent invocations
\* Two processes run main() against the same exchange account.  They share
\* no memory: the second one's locals are kept in `other`, and a context
\* switch exchanges them with the variables of the executing one.  The
\* program takes no lock and passes no idempotency key, so neither process
\* reads anything of the other.
ConcMaxMethods == 1

Saved ==
    [pc |-> pc, args |-> args, payment_methods |-> payment_methods,
     scan_i |-> scan_i, method_id |-> method_id, method_name |-> method_name,
     deposit_response |-> deposit_response, buy_response |-> buy_response,
     trade_id |-> trade_id, executed_trade_response |-> executed_trade_response,
     trace |-> trace, snapshots |-> snapshots, log |-> log, exc |-> exc,
     result |-> result]

RunEnded(r) == r.pc \in {"returned", "raised", "usage_error"}

\* The operator starts the same command twice.
ConcInit ==
    /\ RunInit
    /\ args.funding_method # None
    /\ args.amount = 5
    /\ args.fiat_currency = "USD"
    /\ cur = 1
    /\ other = StartOf(args)

\* The scheduler suspends the executing process and resumes the other one.
Switch ==
    /\ other.pc # "absent"
    /\ ~RunEnded(other)
    /\ other' = Saved
    /\ cur' = 3 - cur
    /\ pc' = other.pc
    /\ args' = other.args
    /\ payment_methods' = other.payment_methods
    /\ scan_i' = other.scan_i
    /\ method_id' = other.method_id
    /\ method_name' = other.method_name
    /\ deposit_response' = other.deposit_response
    /\ buy_response' = other.buy_response
    /\ trade_id' = other.trade_id
    /\ executed_trade_response' = other.executed_trade_response
    /\ trace' = other.trace
    /\ snapshots' = other.snapshots
    /\ log' = other.log
    /\ exc' = other.exc
    /\ result' = other.result

\* The payment-method lists considered for the two-process runs.
ConcInputs ==
    /\ Len(payment_methods.items) <= ConcMaxMethods
    /\ \A i \in 1..Len(payment_methods.items) :
          payment_methods.items[i].id = "m1" /\ payment_methods.items[i].name = "n1"

ConcStep == Next /\ ConcInputs'

ConcNext ==
    \/ ConcStep
    \/ Switch

\* Each process is eventually scheduled and runs to its end.
ConcSpec ==
    ConcInit /\ [][ConcNext]_vars /\ WF_vars(ConcStep) /\ WF_vars(Switch)

\* One invocation is a single sequential thread: every enabled step is
\* eventually taken (sleeps and client calls return).
FairSpec == Spec /\ WF_vars(Next)

\* ============================================================ properties
Terminal == pc \in {"returned", "raised", "usage_error"}
CallsOf(op) == SelectSeq(trace, LAMBDA e : e.op = op)
Count(op) == Len(CallsOf(op))

\* Responses seen by the run.
GotMethodList == payment_methods.kind = "list"
Placed == Count("place_market_order") = 1

\* Indices of the records of the requested category.
MatchIdx ==
    {i \in 1..Len(payment_methods.items) :
        payment_methods.items[i].type = args.funding_method}
Min(S) == CHOOSE x \in S : \A y \in S : x <= y
Max(S) == CHOOSE x \in S : \A y \in S : x >= y
FirstMatch == payment_methods.items[Min(MatchIdx)]
LastMatch == payment_methods.items[Max(MatchIdx)]

\* The deposit call was issued once, with the caller's amount and currency
\* and the given identifier.
DepositIssuedWith(id) ==
    CallsOf("deposit") = <<Call("deposit", <<args.amount, args.fiat_currency, id>>)>>

\* The run returned the deposit response it received.
ReturnedDepositResponse ==
    /\ pc = "returned"
    /\ result.kind = "dict"
    /\ result.dict = deposit_response

\* The response carries the marker text, as a key or as its message.
ContainsMarker(d, marker) ==
    \/ marker \in d.keys
    \/ "message" \in d.keys /\ d.val["message"] = marker

\* The exchange's error response for rejected credentials.
InvalidCredentialsResponse ==
    Dict({"message"}, [k \in {"message"} |-> InvalidKeyMarker])

\* C1: for every funding-method list with no record of the requested
\* category, deposit fails with FundingSourceNotFound and issues no deposit
\* call.
C1_NoMatchFailsWithFundingSourceNotFound ==
    (GotMethodList /\ MatchIdx = {} /\ Terminal)
        => (exc = FundingSourceNotFound /\ Count("deposit") = 0)

\* C2 (as stated): for every list with exactly one record of the requested
\* category, deposit issues the deposit call with the caller's amount and
\* currency and that record's identifier, and returns the confirmation.
C2_OneMatchDeposits ==
    (GotMethodList /\ Cardinality(MatchIdx) = 1 /\ Terminal)
        => /\ DepositIssuedWith(FirstMatch.id)
           /\ "payout_at" \in deposit_response.keys => ReturnedDepositResponse

\* C2 (amended): the same, for lists whose one record of the requested
\* category carries a remaining deposit limit.
C2_OneMatchWithLimitDeposits ==
    (GotMethodList /\ Cardinality(MatchIdx) = 1 /\ FirstMatch.has_limit /\ Terminal)
        => /\ DepositIssuedWith(FirstMatch.id)
           /\ "payout_at" \in deposit_response.keys => ReturnedDepositResponse

C2_Witness ==
    /\ GotMethodList /\ MatchIdx = {2}
    /\ ReturnedDepositResponse
    /\ DepositIssuedWith(payment_methods.items[2].id)
    /\ payment_methods.items[1].id # payment_methods.items[2].id

\* C3: when placement returned an identifier and the first snapshot is
\* unsettled, buy waits twice, fetches twice and returns the second snapshot.
C3_UnsettledFirstRefetchesOnce ==
    (Len(snapshots) >= 1 /\ ~snapshots[1].settled /\ Terminal)
        => /\ pc = "returned"
           /\ Count("sleep") = 2
           /\ Count("get_order") = 2
           /\ Len(snapshots) = 2
           /\ result.kind = "snapshot"
           /\ result.snap = snapshots[2]

C3_Witness ==
    /\ pc = "returned"
    /\ Len(snapshots) = 2
    /\ ~snapshots[1].settled
    /\ snapshots[2] = [settled |-> TRUE, filled_size |-> "0.002", fill_fees |-> "0.50"]
    /\ result.snap = snapshots[2]

\* C4: when the placement response contains the insufficient-funds marker,
\* buy fails with InsufficientFunds and neither fetches nor waits.
C4_InsufficientMarkerFails ==
    (Placed /\ ContainsMarker(buy_response, InsufficientMarker) /\ Terminal)
        => /\ exc = InsufficientFunds
           /\ Count("get_order") = 0
           /\ Count("sleep") = 0

\* C5: when the placement response has no error marker and no identifier,
\* buy fails with OrderPlacementFailed and fetches no order status.
C5_NoIdFailsOrderPlacement ==
    (/\ Placed
     /\ ~ContainsMarker(buy_response, InvalidKeyMarker)
     /\ ~ContainsMarker(buy_response, InsufficientMarker)
     /\ "id" \notin buy_response.keys)
        => /\ Count("get_order") = 0
           /\ Terminal => exc = OrderPlacementFailed

C5_Witness ==
    /\ Placed
    /\ buy_response.keys = {"message"}
    /\ buy_response.val["message"] = "Internal server error"
    /\ exc = OrderPlacementFailed

\* C6: when the first exchange call of either workflow is answered with the
\* exchange's invalid-credentials error response, the workflow fails with
\* AuthenticationRejected and issues no further exchange call.
C6_InvalidCredentialsRejected ==
    (/\ Terminal
     /\ \/ payment_methods.kind = "dict" /\ payment_methods.d = InvalidCredentialsResponse
        \/ Placed /\ buy_response = InvalidCredentialsResponse)
        => /\ exc \in {AuthenticationRejectedDeposit, AuthenticationRejectedBuy}
           /\ Len(trace) = 1

\* C7: buy never fetches or waits more than twice; when the first snapshot
\* is settled it waits once, fetches once and returns that snapshot.
C7_AtMostTwoFetches ==
    /\ Count("get_order") <= 2
    /\ Count("sleep") <= 2
    /\ (Len(snapshots) >= 1 /\ snapshots[1].settled /\ Terminal)
          => /\ pc = "returned"
             /\ Count("sleep") = 1
             /\ Count("get_order") = 1
             /\ result.kind = "snapshot"
             /\ result.snap = snapshots[1]

C7_Witness ==
    /\ pc = "returned"
    /\ Len(snapshots) = 1
    /\ snapshots[1].settled
    /\ result.snap = snapshots[1]

\* C8: once placement has returned an identifier buy terminates, whatever
\* the snapshots are, and a second snapshot that is still unsettled is
\* returned as a normal result.
C8_TerminatesAndReturnsUnsettled ==
    /\ (pc = "b127") ~> (pc = "returned")
    /\ []((Len(snapshots) = 2 /\ ~snapshots[2].settled /\ Terminal)
            => /\ pc = "returned"
               /\ exc = NoExc
               /\ result.kind = "snapshot"
               /\ result.snap = snapshots[2])

C8_Witness ==
    /\ pc = "returned"
    /\ Len(snapshots) = 2
    /\ ~snapshots[1].settled
    /\ ~snapshots[2].settled
    /\ result.snap = snapshots[2]

\* C9 (as stated): when several records share the requested category, the
\* identifier sent in the deposit call is that of the first match.
C9_FirstMatchWins ==
    (GotMethodList /\ Cardinality(MatchIdx) >= 2 /\ Count("deposit") >= 1)
        => CallsOf("deposit")[1].args[3] = FirstMatch.id

\* C9 (amended): when several records share the requested category, the
\* identifier sent in the deposit call is that of the last match.
C9_LastMatchWins ==
    (GotMethodList /\ Cardinality(MatchIdx) >= 2 /\ Count("deposit") >= 1)
        => CallsOf("deposit")[1].args[3] = LastMatch.id

C9_Witness ==
    /\ GotMethodList
    /\ Cardinality(MatchIdx) >= 2
    /\ FirstMatch.id # LastMatch.id
    /\ Count("deposit") = 1
    /\ CallsOf("deposit")[1].args[3] = LastMatch.id

\* Operations of the exchange client that each workflow uses.
DepositOps == {"get_payment_methods", "deposit"}
BuyOps == {"place_market_order", "get_order"}
ExchangeCalls == SelectSeq(trace, LAMBDA e : e.op # "sleep")

\* C11: a deposit run issues only list-payment-methods and deposit calls and
\* a buy run only place-market-order and order-status calls, also after a
\* failure.
C11_OnlyTheSelectedWorkflowRuns ==
    \A i \in 1..Len(ExchangeCalls) :
        /\ args.action = "deposit" => ExchangeCalls[i].op \in DepositOps
        /\ args.action = "buy" => ExchangeCalls[i].op \in BuyOps

C11_Witness ==
    /\ args.action = "deposit"
    /\ pc = "raised"
    /\ exc = UnboundLocalError("method_id")
    /\ Len(ExchangeCalls) = 1
    /\ ExchangeCalls[1].op = "get_payment_methods"

\* C12: in every run the deposit call is issued at most once and the
\* place-market-order call at most once, whatever the exchange responds.
C12_SubmissionAtMostOnce ==
    /\ Count("deposit") <= 1
    /\ Count("place_market_order") <= 1

C12_Witness ==
    /\ pc = "raised"
    /\ exc = OrderPlacementFailed
    /\ Count("place_market_order") = 1

\* The log holds an informational event reporting a completed deposit.
LoggedDeposited ==
    \E i \in 1..Len(log) : log[i].level = "info" /\ log[i].what = "deposited"

\* C13: when the exchange answers the deposit call with an embedded error
\* instead of a confirmation, no informational "deposited" event is emitted.
C13_DepositedOnlyOnSuccess ==
    (Count("deposit") = 1 /\ deposit_response \in ErrorDicts) => ~LoggedDeposited

\* The failures raised explicitly by the two workflows.
WorkflowFailures ==
    {AuthenticationRejectedDeposit, AuthenticationRejectedBuy,
     FundingSourceNotFound, InsufficientFunds, OrderPlacementFailed}

C16_LastMatchGivesIdAndName ==
    (GotMethodList /\ MatchIdx # {})
        => /\ Count("deposit") >= 1
                => CallsOf("deposit")[1].args[3] = LastMatch.id
           /\ \A i \in 1..Len(log) :
                log[i].what = "deposited" => log[i].args[3] = LastMatch.name

C16_Witness ==
    /\ GotMethodList
    /\ Cardinality(MatchIdx) >= 2
    /\ FirstMatch.id # LastMatch.id
    /\ FirstMatch.name # LastMatch.name
    /\ LoggedDeposited
    /\ log[Len(log)].what = "available_at"

\* The calls and waits of a complete buy run, in order.
BuySchedule ==
    LET id == DictGet(buy_response, "id", None) IN
    <<Call("place_market_order", <<args.cryptocurrency, "buy", str(args.amount)>>),
      Call("sleep", <<5>>), Call("get_order", <<id>>),
      Call("sleep", <<30>>), Call("get_order", <<id>>)>>

\* C17: a buy run places the order, waits 5, fetches, and only after an
\* unsettled snapshot waits 30 and fetches again; fetches follow a
\* placement that returned an identifier and use that identifier.
C17_BuyEventsInOrder ==
    args.action = "buy"
        => /\ Len(trace) <= 5
           /\ \A i \in 1..Len(trace) :
                /\ trace[i].op = BuySchedule[i].op
                /\ trace[i].args = BuySchedule[i].args
           /\ Len(trace) >= 2 => "id" \in buy_response.keys
           /\ Len(trace) >= 4 => ~snapshots[1].settled

C17_Witness ==
    /\ args.action = "buy"
    /\ pc = "returned"
    /\ Len(trace) = 5
    /\ trace[5].args = <<buy_response.val["id"]>>

\* C18: when a record of the requested category lacks the remaining-limit
\* entry, deposit fails during the scan and issues no deposit call, although
\* an identifier was found.
C18_MissingLimitStopsDeposit ==
    (GotMethodList /\ \E i \in MatchIdx : ~payment_methods.items[i].has_limit)
        => /\ Count("deposit") = 0
           /\ pc \in {"d78", "d82", "raised"}
           /\ pc = "raised"
                => /\ exc = KeyError("limits.deposit.remaining.amount")
                   /\ method_id \in MethodIds

C18_Witness ==
    /\ GotMethodList
    /\ Cardinality(MatchIdx) = 2
    /\ payment_methods.items[1].has_limit
    /\ ~payment_methods.items[2].has_limit
    /\ pc = "raised"
    /\ method_id = payment_methods.items[2].id
    /\ Count("deposit") = 0

\* Number of submissions (deposit or order placement) in a run's calls.
Submissions(tr) ==
    Len(SelectSeq(tr, LAMBDA e : e.op \in {"deposit", "place_market_order"}))

\* The responses a run itself received let it reach its submission: the
\* handle was constructed and, for a deposit, the list has a record of the
\* requested category and every such record carries a limit.
OwnInputsAllowSubmission(r) ==
    /\ r.pc # "usage_error"
    /\ r.exc # InvalidCredentialFormat
    /\ r.args.action = "deposit"
         => /\ r.payment_methods.kind = "list"
            /\ \E i \in 1..Len(r.payment_methods.items) :
                  r.payment_methods.items[i].type = r.args.funding_method
            /\ \A i \in 1..Len(r.payment_methods.items) :
                  r.payment_methods.items[i].type = r.args.funding_method
                    => r.payment_methods.items[i].has_limit

\* C14: two concurrent invocations of the same workflow are not coordinated:
\* under every interleaving both run to their end, and each one submits
\* whenever its own inputs allow, whatever the other one has done.
C14_ConcurrentRunsBothSubmit ==
    /\ <>(RunEnded(Saved) /\ RunEnded(other))
    /\ [](\A r \in {Saved, other} :
            (RunEnded(r) /\ OwnInputsAllowSubmission(r)) => Submissions(r.trace) = 1)

\* The account has received two identical deposits, one from each run, and
\* both runs returned normally.
C14_Witness ==
    /\ args.action = "deposit"
    /\ pc = "returned"
    /\ other.pc = "returned"
    /\ Submissions(trace) + Submissions(other.trace) = 2
    /\ CallsOf("deposit") = SelectSeq(other.trace, LAMBDA e : e.op = "deposit")
====
